---- MODULE Spec2Model ----
(***************************************************************************)
(* The thermostat of backend/src as a state machine: the control loop      *)
(* (services/logic), the relay and sensor drivers, the broker bridge       *)
(* (services/mqtt) and the routes that call into them.                     *)
(*                                                                         *)
(* Units: temperatures are tenths of a degree Celsius (22.0 C = 220),      *)
(* times are seconds (30000 ms = 30).  Node runs every handler to          *)
(* completion, so one action is one handler; the only handler that waits   *)
(* for the outside is setTargetTemperature, at its await of the settings   *)
(* store, and it is two actions.  The broker client library is not part of *)
(* the sources: a client is the state of its link and the events it emits. *)
(***************************************************************************)
EXTENDS Integers, Sequences, FiniteSets, TLC

\* ------------------------------------------------------------ constants
DefaultTargetTemperature == 220
DefaultHysteresis == 15
maxConsecutiveErrors == 5
minActionInterval == 30
MinTemperature == 50
MaxTemperature == 300
MaxHysteresis == 50
maxReconnectAttempts == 10

\* --------------------------------------------------------------- bounds
\* The clock runs from 0 to MaxClockSteps * TimeUnit seconds.
MaxClockSteps == 4
\* setTargetTemperature calls that may wait on the settings store at once.
MaxPending == 1

\* The same where the calls are meant to overlap.
MaxOverlap == 2
\* Broker clients that initializeMqtt creates in one run.
MaxClients == 2
\* 'message' listeners that one client collects over its connects.
MaxListeners == 2

\* --------------------------------------------------------------- inputs
\* Half the minimum action interval: the finest step of the clock, so that a
\* decision can come 0, 15, 30, ... seconds after the last toggle.
TimeUnit == minActionInterval \div 2
MaxTime == MaxClockSteps * TimeUnit

\* What getTemperature() does: it returns a value or throws.
Reading(t) == [ok |-> TRUE, value |-> t]
ReadFails == [ok |-> FALSE, value |-> 0]
\* The config argument of startThermostat: a partial ThermostatConfig.
EmptyConfig == [k \in {} |-> 0]

\* A message from the broker: bytes that JSON.parse accepts or not, and the object
\* they parse to, its fields holding a number, a boolean or a string.
Unparseable == [json |-> FALSE, payload |-> EmptyConfig]
Json(payload) == [json |-> TRUE, payload |-> payload]
Num(x) == [type |-> "number", v |-> x]
Bool(b) == [type |-> "boolean", v |-> b]
Str(t) == [type |-> "string", v |-> t]
Value(x) == Json([value |-> x])
NoValueField == Json([other |-> Num(1)])

\* An environment: the inputs it offers the handlers.
\*   readings     what getTemperature() does
\*   relayOks     whether relay.digitalWrite returns (TRUE) or throws (FALSE)
\*   configs      bodies of POST /thermostat/start, the config it hands startThermostat
\*   targets      arguments of setTargetTemperature
\*   hystereses   arguments of setHysteresis
\*   dbOks        whether SettingModel.updateOne resolves (TRUE) or rejects
\*   setpointMsgs messages on the setpoint command topic
\*   relayMsgs    messages on the relay command topic
\*   modeMsgs     messages on the mode command topic
\*   step         seconds the clock advances at a time
\*   stored       what the settings store holds at start-up: a target, 0 if none
\* EnvFaults: every fault of the sensor and the relay, few values, a coarse clock.
EnvFaults ==
  [readings |-> {Reading(190), ReadFails},
   relayOks |-> BOOLEAN,
   configs |-> {EmptyConfig, [targetTemperature |-> 300, hysteresis |-> 50]},
   targets |-> {300},
   hystereses |-> {50},
   dbOks |-> {TRUE},
   setpointMsgs |-> {Value(Num(300))},
   relayMsgs |-> {Value(Bool(TRUE)), Value(Bool(FALSE))},
   modeMsgs |-> {Value(Str("heat")), Value(Str("off"))},
   step |-> 2 * minActionInterval,
   stored |-> {0}]

\* EnvInputs: arguments in and out of range (4.9, 5.0, 30.0, 30.1 degrees for the
\* target; 0, 5.0, 5.1 for the hysteresis) and a settings store that can fail.
EnvInputs ==
  [readings |-> {Reading(190)},
   relayOks |-> {TRUE},
   configs |-> {EmptyConfig, [targetTemperature |-> 300], [targetTemperature |-> 301],
               [hysteresis |-> 51]},
   targets |-> {49, 50, 300, 301},
   hystereses |-> {0, 50, 51},
   dbOks |-> BOOLEAN,
   setpointMsgs |-> {Value(Num(49)), Value(Num(300)), Value(Num(301))},
   relayMsgs |-> {Value(Bool(TRUE)), Value(Bool(FALSE))},
   modeMsgs |-> {Value(Str("heat")), Value(Str("off"))},
   step |-> 2 * minActionInterval,
   stored |-> {0, 300}]

\* EnvDecision: temperatures below, on and above the limits of the default
\* configuration (lower limit 20.5, upper limit 22.0), and other configurations.
EnvDecision ==
  [readings |-> {Reading(190), Reading(205), Reading(220)},
   relayOks |-> BOOLEAN,
   configs |-> {EmptyConfig, [targetTemperature |-> 300, hysteresis |-> 50]},
   targets |-> {50},
   hystereses |-> {50},
   dbOks |-> {TRUE},
   setpointMsgs |-> {Value(Num(50))},
   relayMsgs |-> {Value(Bool(TRUE)), Value(Bool(FALSE))},
   modeMsgs |-> {Value(Str("heat")), Value(Str("off"))},
   step |-> minActionInterval,
   stored |-> {0}]

\* EnvTiming: a clock that also stops inside the minimum action interval.
EnvTiming ==
  [readings |-> {Reading(190), Reading(220)},
   relayOks |-> BOOLEAN,
   configs |-> {EmptyConfig},
   targets |-> {50},
   hystereses |-> {DefaultHysteresis},
   dbOks |-> {TRUE},
   setpointMsgs |-> {Value(Num(50))},
   relayMsgs |-> {Value(Bool(TRUE)), Value(Bool(FALSE))},
   modeMsgs |-> {Value(Str("heat")), Value(Str("off"))},
   step |-> TimeUnit,
   stored |-> {0}]

\* EnvMessages: command messages of every shape: unparseable, without a value
\* field, with a value of the wrong type, and well formed; a sensor that can fail
\* and a settings store that can fail.
EnvMessages ==
  [readings |-> {Reading(190), ReadFails},
   relayOks |-> {TRUE},
   configs |-> {EmptyConfig},
   targets |-> {240},
   hystereses |-> {50},
   dbOks |-> BOOLEAN,
   setpointMsgs |-> {Unparseable, NoValueField, Value(Str("24")), Value(Num(240))},
   relayMsgs |-> {Unparseable, NoValueField, Value(Str("on")), Value(Bool(TRUE)),
                  Value(Bool(FALSE))},
   modeMsgs |-> {Unparseable, NoValueField, Value(Bool(TRUE)), Value(Str("auto")),
                 Value(Str("heat")), Value(Str("off"))},
   step |-> minActionInterval,
   stored |-> {0}]

\* EnvBridge: a loop with one reading and no faults, and well-formed commands.
EnvBridge ==
  [readings |-> {Reading(190)},
   relayOks |-> {TRUE},
   configs |-> {EmptyConfig},
   targets |-> {240},
   hystereses |-> {50},
   dbOks |-> {TRUE},
   setpointMsgs |-> {Value(Num(240))},
   relayMsgs |-> {Value(Bool(TRUE))},
   modeMsgs |-> {Value(Str("heat")), Value(Str("off"))},
   step |-> minActionInterval,
   stored |-> {0}]

\* EnvScenario: a loop started with target 22.0 and hysteresis 1.5 that reads
\* 19.0 or 22.1 degrees, no faults, and a clock that also stops inside the
\* minimum action interval.
EnvScenario ==
  [readings |-> {Reading(190), Reading(221)},
   relayOks |-> {TRUE},
   configs |-> {[targetTemperature |-> 220, hysteresis |-> 15]},
   targets |-> {220},
   hystereses |-> {15},
   dbOks |-> {TRUE},
   setpointMsgs |-> {Value(Num(220))},
   relayMsgs |-> {Value(Bool(TRUE))},
   modeMsgs |-> {Value(Str("heat"))},
   step |-> TimeUnit,
   stored |-> {0}]

DEFAULT_CONFIG ==
  [targetTemperature |-> DefaultTargetTemperature, hysteresis |-> DefaultHysteresis]

VARIABLES
  thermostatState,     \* logic: the ThermostatState object
  thermostatConfig,    \* logic: the ThermostatConfig object (target, hysteresis)
  thermostatInterval,  \* logic: TRUE when the setInterval handle is set
  lastControlAction,   \* logic: time of the last successful decision toggle
  relayState,          \* relay.ts: the relay's state
  now,                 \* the clock, Date.now()
  persisted,           \* settings store: the targetTemperature record, 0 if none
  pending,             \* setTargetTemperature calls waiting on the store: the value,
                       \* the caller, "rest" or "mqtt", whether the loop was
                       \* running when the call was made, and whether the call
                       \* changes a target (thermostatState's or thermostatConfig's),
                       \* and whether another call was waiting at the same time
  mqttClient,          \* mqtt: the current client, an index of clients, 0 for null
  clients,             \* the clients mqtt.connect has created: the state of the link
                       \* ("connecting", "connected", "closed", "ended") and the
                       \* number of 'message' listeners registered on it
  serviceState,        \* mqtt: the MqttServiceState object
  publishInterval,     \* mqtt: TRUE when the publish timer's handle is set
  restartTimers,       \* restartMqtt: timeouts that will call initializeMqtt
  retainedOnline,      \* broker: the message it retains on the online topic, as
                       \* <<value>>, <<>> while it has none
  obs,                 \* history: what the last handler did
  failedTicks,         \* history: consecutive failed ticks since the last good read
  otherFailedReads,    \* history: failed reads of start/setTarget since then
  sinceRelayToggle,    \* history: seconds since the relay last changed state, capped at
                       \* minActionInterval; -1 if it never did
  decisionToggles      \* history: times of the last two toggles by controlHeating,
                       \* oldest first, -1 where there was none

vars ==
  <<thermostatState, thermostatConfig, thermostatInterval, lastControlAction,
    relayState, now, persisted, pending, mqttClient, clients, serviceState,
    publishInterval, restartTimers, retainedOnline, obs, failedTicks,
    otherFailedReads, sinceRelayToggle, decisionToggles>>

\* What a handler did: its name and result, the actuator command it issued
\* (cmd, by whom, whether the driver accepted it), isHeating as the decision
\* read it, whether the consecutive-error limit was reached (shutdown), and
\* how many times the critical-error handlers were run (notified); for a
\* setTargetTemperature or setHysteresis call, its argument (arg) and, when the
\* call resumes, who made it (caller) and whether the loop was running when it
\* was made (wasRunning); for a command message, its shape; the
\* messages the handler handed the broker client to publish, in order (pub);
\* how many of them it had handed over when it subscribed to the command
\* topics (subAt) and when it armed the publish timer (armedAt), -1 if it did
\* not; whether the decision returned early, inside the minimum action interval,
\* with a threshold crossed (deferred), and for a tick whether the handler
\* before it had done so (afterDeferral); for a command message, how many times
\* its handler called the operation it commands (applied); when a
\* setTargetTemperature call fails at the settings store, whether the call's
\* value differed from the targets of thermostatState and thermostatConfig
\* before the call (changes).
NoObs ==
  [op |-> "init", res |-> "ok", arg |-> 0, cmd |-> "none", by |-> "none",
   cmdOk |-> TRUE, wasHeating |-> FALSE, shutdown |-> FALSE, notified |-> 0,
   caller |-> "none", wasRunning |-> FALSE, shape |-> "none", pub |-> <<>>,
   subAt |-> -1, armedAt |-> -1, deferred |-> FALSE, afterDeferral |-> FALSE,
   applied |-> 0, changes |-> FALSE, overlapped |-> FALSE]

\* The memory a handler works on, and the value it returns (ret).
Mem(op) ==
  [thermostatState |-> thermostatState,
   thermostatConfig |-> thermostatConfig,
   thermostatInterval |-> thermostatInterval,
   lastControlAction |-> lastControlAction,
   relayState |-> relayState,
   mqttClient |-> mqttClient,
   clients |-> clients,
   serviceState |-> serviceState,
   publishInterval |-> publishInterval,
   restartTimers |-> restartTimers,
   retainedOnline |-> retainedOnline,
   pending |-> pending,
   obs |-> [NoObs EXCEPT !.op = op],
   failedTicks |-> failedTicks,
   otherFailedReads |-> otherFailedReads,
   sinceRelayToggle |-> sinceRelayToggle,
   decisionToggles |-> decisionToggles,
   ret |-> TRUE]

Commit(m) ==
  /\ thermostatState' = m.thermostatState
  /\ thermostatConfig' = m.thermostatConfig
  /\ thermostatInterval' = m.thermostatInterval
  /\ lastControlAction' = m.lastControlAction
  /\ relayState' = m.relayState
  /\ mqttClient' = m.mqttClient
  /\ clients' = m.clients
  /\ serviceState' = m.serviceState
  /\ publishInterval' = m.publishInterval
  /\ restartTimers' = m.restartTimers
  /\ retainedOnline' = m.retainedOnline
  /\ pending' = m.pending
  /\ obs' = m.obs
  /\ failedTicks' = m.failedTicks
  /\ otherFailedReads' = m.otherFailedReads
  /\ sinceRelayToggle' = m.sinceRelayToggle
  /\ decisionToggles' = m.decisionToggles

\* ------------------------------------------------------ hardware/relay.ts
\* ok: whether relay.digitalWrite returns (TRUE) or throws (FALSE).
turnOnRelay(m, ok) ==
  LET o == [m.obs EXCEPT !.cmd = "on", !.cmdOk = ok] IN
  IF ok
    THEN [m EXCEPT !.relayState = TRUE,
                   !.sinceRelayToggle = IF m.relayState THEN @ ELSE 0,
                   !.obs = o, !.ret = TRUE]
    ELSE [m EXCEPT !.obs = o, !.ret = FALSE]

turnOffRelay(m, ok) ==
  LET o == [m.obs EXCEPT !.cmd = "off", !.cmdOk = ok] IN
  IF ok
    THEN [m EXCEPT !.relayState = FALSE,
                   !.sinceRelayToggle = IF m.relayState THEN 0 ELSE @,
                   !.obs = o, !.ret = TRUE]
    ELSE [m EXCEPT !.obs = o, !.ret = FALSE]

getRelayState(m) == m.relayState

\* ------------------------------------------- services/mqtt: publishing
\* The message is handed to the client (retained, qos 0) when there is a client
\* and the service believes it is connected; otherwise it is not sent. The
\* broker gets it, and retains it, when that client's link is up.
publishMessage(m, topic, value) ==
  IF m.mqttClient = 0 \/ ~m.serviceState.isConnected
    THEN m
    ELSE [m EXCEPT !.obs.pub = Append(@, [topic |-> topic, value |-> value]),
                   !.retainedOnline =
                      IF topic = "online" /\ m.clients[m.mqttClient].link = "connected"
                        THEN <<value>> ELSE @]

publishSetpointUpdate(m, newSetpoint) ==
  IF m.serviceState.isConnected
    THEN publishMessage(m, "setpoint", newSetpoint)
    ELSE m

publishModeUpdate(m, newMode) ==
  IF m.serviceState.isConnected /\ newMode \in {"heat", "off"}
    THEN publishMessage(m, "mode", newMode)
    ELSE m

\* Mutant: the mode says whether the relay is heating.
ModeOf_Heating(state) == IF state.isHeating THEN "heat" ELSE "off"

\* thermostatState.isRunning ? 'heat' : 'off'
ModeOf(state) == IF state.isRunning THEN "heat" ELSE "off"

publishThermostatStatus(m) ==
  IF ~m.serviceState.isConnected THEN m
  ELSE LET m1 == publishMessage(m, "temperature", m.thermostatState.currentTemperature)
           m2 == publishMessage(m1, "relay", getRelayState(m1))
           m3 == publishMessage(m2, "setpoint", m2.thermostatState.targetTemperature)
           m4 == publishMessage(m3, "mode", ModeOf(m3.thermostatState))
       IN [m4 EXCEPT !.serviceState.lastError = "none"]

\* ------------------------------------------------------- services/logic
\* Mutant: the upper limit is off by one tenth of a degree.
validateTemperatureValue_OffByOne(temperature) ==
  temperature >= MinTemperature /\ temperature <= MaxTemperature + 1

validateTemperatureValue(temperature) ==
  temperature >= MinTemperature /\ temperature <= MaxTemperature

validateHysteresisValue(hysteresis) ==
  hysteresis > 0 /\ hysteresis <= MaxHysteresis

resetErrorCounter(m) == [m EXCEPT !.thermostatState.consecutiveErrors = 0]

\* Runs every registered handler once.
notifyCriticalError(m) == [m EXCEPT !.obs.notified = @ + 1]

\* Mutant: the shutdown leaves the timer armed.
handleSensorError_KeepsTimer(m) ==
  LET m1 == [m EXCEPT !.thermostatState.consecutiveErrors = @ + 1,
                      !.thermostatState.lastError = "sensor"]
  IN IF m1.thermostatState.consecutiveErrors >= maxConsecutiveErrors
       THEN notifyCriticalError(
              [m1 EXCEPT !.thermostatState.isRunning = FALSE,
                         !.obs.shutdown = TRUE])
       ELSE m1

handleSensorError(m) ==
  LET m1 == [m EXCEPT !.thermostatState.consecutiveErrors = @ + 1,
                      !.thermostatState.lastError = "sensor"]
  IN IF m1.thermostatState.consecutiveErrors >= maxConsecutiveErrors
       THEN notifyCriticalError(
              [m1 EXCEPT !.thermostatState.isRunning = FALSE,
                         !.thermostatInterval = FALSE,
                         !.obs.shutdown = TRUE])
       ELSE m1

\* reading: what getTemperature() does, a value or a throw.
updateCurrentState(m, reading) ==
  IF reading.ok
    THEN [resetErrorCounter(m) EXCEPT
            !.thermostatState.currentTemperature = reading.value,
            !.thermostatState.isHeating = getRelayState(m),
            !.failedTicks = 0,
            !.otherFailedReads = 0,
            !.ret = TRUE]
    ELSE [handleSensorError(m) EXCEPT !.ret = FALSE]

lowerLimit(m) ==
  m.thermostatConfig.targetTemperature - m.thermostatConfig.hysteresis

upperLimit(m) == m.thermostatConfig.targetTemperature

\* Mutant: the guard compares with half the interval.
TooSoon_HalfInterval(m) == now - m.lastControlAction < minActionInterval \div 2

\* now - lastControlAction < minActionInterval: the decision returns early.
TooSoon(m) == now - m.lastControlAction < minActionInterval

ShouldTurnOff(m) == m.thermostatState.currentTemperature >= upperLimit(m)

\* Mutant: the lower limit itself turns the heating on.
ShouldTurnOn_Inclusive(m) == m.thermostatState.currentTemperature <= lowerLimit(m)

ShouldTurnOn(m) == m.thermostatState.currentTemperature < lowerLimit(m)

\* Mutant: a failed command starts a new minimum action interval too.
controlHeating_FailureStartsInterval(m, relayOk) ==
  LET seen == [m EXCEPT !.obs.by = "decision",
                        !.obs.wasHeating = m.thermostatState.isHeating,
                        !.lastControlAction = now]
  IN
  IF ~m.thermostatState.isRunning THEN m
  ELSE IF TooSoon(m)
    THEN [m EXCEPT !.obs.deferred =
            IF m.thermostatState.isHeating THEN ShouldTurnOff(m) ELSE ShouldTurnOn(m)]
  ELSE IF m.thermostatState.isHeating
    THEN IF ShouldTurnOff(m)
           THEN LET r == turnOffRelay(seen, relayOk) IN
                IF r.ret
                  THEN [r EXCEPT !.thermostatState.isHeating = FALSE,
                                 !.decisionToggles = <<@[2], now>>]
                  ELSE [r EXCEPT !.thermostatState.lastError = "relayOff"]
           ELSE m
    ELSE IF ShouldTurnOn(m)
           THEN LET r == turnOnRelay(seen, relayOk) IN
                IF r.ret
                  THEN [r EXCEPT !.thermostatState.isHeating = TRUE,
                                 !.decisionToggles = <<@[2], now>>]
                  ELSE [r EXCEPT !.thermostatState.lastError = "relayOn"]
           ELSE m

\* Mutant: a decision that returns early starts a new minimum action interval.
controlHeating_DeferralRestartsInterval(m, relayOk) ==
  LET seen == [m EXCEPT !.obs.by = "decision",
                        !.obs.wasHeating = m.thermostatState.isHeating]
  IN
  IF ~m.thermostatState.isRunning THEN m
  ELSE IF TooSoon(m)
    THEN [m EXCEPT !.lastControlAction = now,
                   !.obs.deferred =
            IF m.thermostatState.isHeating THEN ShouldTurnOff(m) ELSE ShouldTurnOn(m)]
  ELSE IF m.thermostatState.isHeating
    THEN IF ShouldTurnOff(m)
           THEN LET r == turnOffRelay(seen, relayOk) IN
                IF r.ret
                  THEN [r EXCEPT !.thermostatState.isHeating = FALSE,
                                 !.lastControlAction = now,
                                 !.decisionToggles = <<@[2], now>>]
                  ELSE [r EXCEPT !.thermostatState.lastError = "relayOff"]
           ELSE m
    ELSE IF ShouldTurnOn(m)
           THEN LET r == turnOnRelay(seen, relayOk) IN
                IF r.ret
                  THEN [r EXCEPT !.thermostatState.isHeating = TRUE,
                                 !.lastControlAction = now,
                                 !.decisionToggles = <<@[2], now>>]
                  ELSE [r EXCEPT !.thermostatState.lastError = "relayOn"]
           ELSE m

controlHeating(m, relayOk) ==
  LET seen == [m EXCEPT !.obs.by = "decision",
                        !.obs.wasHeating = m.thermostatState.isHeating]
  IN
  IF ~m.thermostatState.isRunning THEN m
  ELSE IF TooSoon(m)
    THEN [m EXCEPT !.obs.deferred =
            IF m.thermostatState.isHeating THEN ShouldTurnOff(m) ELSE ShouldTurnOn(m)]
  ELSE IF m.thermostatState.isHeating
    THEN IF ShouldTurnOff(m)
           THEN LET r == turnOffRelay(seen, relayOk) IN
                IF r.ret
                  THEN [r EXCEPT !.thermostatState.isHeating = FALSE,
                                 !.lastControlAction = now,
                                 !.decisionToggles = <<@[2], now>>]
                  ELSE [r EXCEPT !.thermostatState.lastError = "relayOff"]
           ELSE m
    ELSE IF ShouldTurnOn(m)
           THEN LET r == turnOnRelay(seen, relayOk) IN
                IF r.ret
                  THEN [r EXCEPT !.thermostatState.isHeating = TRUE,
                                 !.lastControlAction = now,
                                 !.decisionToggles = <<@[2], now>>]
                  ELSE [r EXCEPT !.thermostatState.lastError = "relayOn"]
           ELSE m

\* Mutant: a failed off command leaves isRunning set after the timer is cleared.
stopThermostat_FailedOffKeepsRunning(m, relayOk) ==
  IF m.thermostatState.isRunning /\ m.thermostatInterval
    THEN LET m1 == [m EXCEPT !.thermostatInterval = FALSE]
             m2 == IF m1.thermostatState.isHeating
                     THEN [turnOffRelay([m1 EXCEPT !.obs.by = "stop"], relayOk)
                             EXCEPT !.thermostatState.isHeating = FALSE]
                     ELSE [m1 EXCEPT !.ret = TRUE]
             m3 == IF m2.ret
                     THEN [m2 EXCEPT !.thermostatState.isRunning = FALSE]
                     ELSE m2
         IN [publishModeUpdate(m3, "off") EXCEPT !.ret = m2.ret]
    ELSE [m EXCEPT !.ret = TRUE]

stopThermostat(m, relayOk) ==
  IF m.thermostatState.isRunning /\ m.thermostatInterval
    THEN LET m1 == [m EXCEPT !.thermostatInterval = FALSE]
             m2 == IF m1.thermostatState.isHeating
                     THEN [turnOffRelay([m1 EXCEPT !.obs.by = "stop"], relayOk)
                             EXCEPT !.thermostatState.isHeating = FALSE]
                     ELSE [m1 EXCEPT !.ret = TRUE]
             m3 == [m2 EXCEPT !.thermostatState.isRunning = FALSE]
         IN [publishModeUpdate(m3, "off") EXCEPT !.ret = m2.ret]
    ELSE [m EXCEPT !.ret = TRUE]

\* { ...DEFAULT_CONFIG, ...config }
MergeConfig(config) ==
  [k \in DOMAIN DEFAULT_CONFIG |->
     IF k \in DOMAIN config THEN config[k] ELSE DEFAULT_CONFIG[k]]

startThermostat(m, config, reading) ==
  LET m0 == [m EXCEPT !.thermostatConfig = MergeConfig(config)] IN
  IF ~m0.thermostatState.isRunning
    THEN LET m1 == [m0 EXCEPT !.thermostatState.lastError = "none",
                              !.thermostatState.consecutiveErrors = 0,
                              !.failedTicks = 0,
                              !.otherFailedReads = 0]
             m2 == updateCurrentState(m1, reading)
             m3 == IF m2.ret THEN m2 ELSE [m2 EXCEPT !.otherFailedReads = @ + 1]
             m4 == [m3 EXCEPT !.thermostatInterval = TRUE,
                              !.thermostatState.isRunning = TRUE]
         IN [publishModeUpdate(m4, "heat") EXCEPT !.ret = TRUE]
    ELSE [m0 EXCEPT !.ret = TRUE]

\* The callback startThermostat hands to setInterval.
tickCallback(m, reading, relayOk) ==
  LET m1 == updateCurrentState(m, reading) IN
  IF m1.ret
    THEN controlHeating(resetErrorCounter(m1), relayOk)
    ELSE LET m2 == [m1 EXCEPT !.thermostatState.consecutiveErrors = @ + 1,
                              !.failedTicks = @ + 1,
                              !.obs.res = "fail"]
         IN IF m2.thermostatState.consecutiveErrors >= maxConsecutiveErrors
              THEN stopThermostat(
                     notifyCriticalError([m2 EXCEPT !.obs.shutdown = TRUE]), relayOk)
              ELSE m2

\* Mutant: the loop is restarted without the captured configuration.
resetThermostat_DefaultConfig(m, reading, relayOk) ==
  LET wasRunning == m.thermostatState.isRunning
      m1 == stopThermostat(m, relayOk)
  IN IF ~m1.ret
       THEN [m1 EXCEPT !.ret = FALSE]
       ELSE LET m2 == [resetErrorCounter(m1) EXCEPT
                         !.thermostatState.lastError = "none",
                         !.failedTicks = 0,
                         !.otherFailedReads = 0]
            IN IF wasRunning
                 THEN startThermostat(m2, EmptyConfig, reading)
                 ELSE [m2 EXCEPT !.ret = TRUE]

resetThermostat(m, reading, relayOk) ==
  LET wasRunning == m.thermostatState.isRunning
      targetTemp == m.thermostatConfig.targetTemperature
      hysteresis == m.thermostatConfig.hysteresis
      m1 == stopThermostat(m, relayOk)
  IN IF ~m1.ret
       THEN [m1 EXCEPT !.ret = FALSE]
       ELSE LET m2 == [resetErrorCounter(m1) EXCEPT
                         !.thermostatState.lastError = "none",
                         !.failedTicks = 0,
                         !.otherFailedReads = 0]
            IN IF wasRunning
                 THEN startThermostat(
                        m2, [targetTemperature |-> targetTemp, hysteresis |-> hysteresis],
                        reading)
                 ELSE [m2 EXCEPT !.ret = TRUE]

\* setTargetTemperature up to its await: validation and the in-memory update.
setTargetTemperatureBegin(m, temperature) ==
  IF ~validateTemperatureValue(temperature)
    THEN [m EXCEPT !.thermostatState.lastError = "setTarget",
                   !.obs.res = "rejected", !.ret = FALSE]
    ELSE [m EXCEPT !.thermostatConfig.targetTemperature = temperature,
                   !.thermostatState.targetTemperature = temperature,
                   !.pending = Append([k \in DOMAIN m.pending |->
                                         [m.pending[k] EXCEPT !.overlapped = TRUE]],
                                      [value |-> temperature, from |-> "rest",
                                       running |-> m.thermostatState.isRunning,
                                       changes |->
                                         \/ m.thermostatState.targetTemperature # temperature
                                         \/ m.thermostatConfig.targetTemperature # temperature,
                                       overlapped |-> m.pending # <<>>]),
                   !.obs.res = "pending"]

\* setTargetTemperature(temperature) after SettingModel.updateOne resolved.
setTargetTemperatureResume(m, temperature, reading, relayOk) ==
  LET m3 == IF m.thermostatState.isRunning
              THEN LET m1 == updateCurrentState(m, reading)
                       m2 == IF m1.ret THEN m1
                             ELSE [m1 EXCEPT !.otherFailedReads = @ + 1]
                   IN controlHeating(m2, relayOk)
              ELSE m
  IN [publishSetpointUpdate(m3, temperature) EXCEPT !.ret = TRUE]

\* setTargetTemperature after SettingModel.updateOne rejected: the catch block.
setTargetTemperatureCatch(m) ==
  [m EXCEPT !.thermostatState.lastError = "setTarget",
            !.obs.res = "dbfail", !.ret = FALSE]

setHysteresis(m, hysteresis) ==
  IF ~validateHysteresisValue(hysteresis)
    THEN [m EXCEPT !.thermostatState.lastError = "setHysteresis",
                   !.obs.res = "rejected", !.ret = FALSE]
    ELSE [m EXCEPT !.thermostatConfig.hysteresis = hysteresis, !.ret = TRUE]

\* -------------------------------------------------------- services/mqtt
\* JSON.parse and the check that every expected field is there; ok is FALSE
\* where the code returns null.
parseJsonPayload(message, expectedFields) ==
  IF ~message.json
    THEN [ok |-> FALSE, payload |-> EmptyConfig]
    ELSE IF \E field \in expectedFields : field \notin DOMAIN message.payload
      THEN [ok |-> FALSE, payload |-> EmptyConfig]
      ELSE [ok |-> TRUE, payload |-> message.payload]

\* The setpoint command handler up to its await of setTargetTemperature; the
\* call waits on the settings store as the handler's.
handleSetpointCommand(m, message) ==
  LET parsed == parseJsonPayload(message, {"value"}) IN
  IF ~parsed.ok THEN [m EXCEPT !.obs.res = "dropped"]
  ELSE LET value == parsed.payload["value"] IN
    IF value.type # "number" THEN [m EXCEPT !.obs.res = "dropped"]
    ELSE LET m1 == setTargetTemperatureBegin(
                       [m EXCEPT !.obs.arg = value.v, !.obs.applied = @ + 1],
                       value.v) IN
      IF m1.obs.res = "pending"
        THEN [m1 EXCEPT !.pending[Len(m1.pending)].from = "mqtt"]
        ELSE m1

\* Mutant: the value is republished whatever setTargetTemperature returned.
handleSetpointCommandResume_Always(m, value, success) ==
  publishMessage(m, "setpoint", value)

\* The setpoint command handler after setTargetTemperature returned.
handleSetpointCommandResume(m, value, success) ==
  IF success THEN publishMessage(m, "setpoint", value) ELSE m

\* Mutant: any truthy value switches the relay on.
handleRelayCommand_Untyped(m, message, relayOk) ==
  LET parsed == parseJsonPayload(message, {"value"}) IN
  IF ~parsed.ok THEN [m EXCEPT !.obs.res = "dropped"]
  ELSE LET value == parsed.payload["value"]
           m0 == [m EXCEPT !.obs.by = "command", !.obs.res = "ok",
                           !.obs.applied = @ + 1]
           on == value.type # "boolean" \/ value.v
           m1 == IF on THEN turnOnRelay(m0, relayOk) ELSE turnOffRelay(m0, relayOk)
       IN publishMessage(m1, "relay", on)

\* The relay command handler: the driver's result is not looked at.
handleRelayCommand(m, message, relayOk) ==
  LET parsed == parseJsonPayload(message, {"value"}) IN
  IF ~parsed.ok THEN [m EXCEPT !.obs.res = "dropped"]
  ELSE LET value == parsed.payload["value"] IN
    IF value.type # "boolean" THEN [m EXCEPT !.obs.res = "dropped"]
    ELSE LET m0 == [m EXCEPT !.obs.by = "command", !.obs.res = "ok",
                             !.obs.applied = @ + 1]
             m1 == IF value.v THEN turnOnRelay(m0, relayOk)
                   ELSE turnOffRelay(m0, relayOk)
         IN publishMessage(m1, "relay", value.v)

\* The mode command handler: startThermostat() with no argument, or stopThermostat().
handleModeCommand(m, message, reading, relayOk) ==
  LET parsed == parseJsonPayload(message, {"value"}) IN
  IF ~parsed.ok THEN [m EXCEPT !.obs.res = "dropped"]
  ELSE LET value == parsed.payload["value"] IN
    IF value.type # "string" THEN [m EXCEPT !.obs.res = "dropped"]
    ELSE IF value.v \notin {"heat", "off"} THEN [m EXCEPT !.obs.res = "dropped"]
    ELSE LET m0 == [m EXCEPT !.obs.applied = @ + 1]
             m1 == IF value.v = "heat"
                     THEN startThermostat(m0, EmptyConfig, reading)
                     ELSE stopThermostat(m0, relayOk)
             m2 == [m1 EXCEPT !.obs.res = IF m1.ret THEN value.v ELSE "fail"]
         IN publishMessage(m2, "mode", value.v)

\* The 'message' listener setupSubscriptions registers: the handler of the topic.
onMessage(m, topic, message, reading, relayOk) ==
  CASE topic = "setpointSet" -> handleSetpointCommand(m, message)
    [] topic = "relaySet" -> handleRelayCommand(m, message, relayOk)
    [] topic = "modeSet" -> handleModeCommand(m, message, reading, relayOk)
    [] OTHER -> m

\* The client emits 'message': each of its n listeners runs, one after the other.
RECURSIVE emitMessage(_, _, _, _, _, _)
emitMessage(n, m, topic, message, reading, relayOk) ==
  IF n = 0 THEN m
  ELSE emitMessage(n - 1, onMessage(m, topic, message, reading, relayOk),
                   topic, message, reading, relayOk)

\* subscribe on the three command topics and one more 'message' listener, on
\* the current client.
setupSubscriptions(m) ==
  IF m.mqttClient = 0 THEN m
  ELSE [m EXCEPT !.clients[m.mqttClient].listeners = @ + 1,
                 !.obs.subAt = Len(m.obs.pub)]

\* The broker loses client c's connection without a disconnect packet from it:
\* it publishes the will the client registered, which is retained.
publishWill(m, c) ==
  IF m.clients[c].link = "connected"
    THEN [m EXCEPT !.retainedOnline = <<m.clients[c].will.value>>]
    ELSE m

\* Mutant: the will says the device is online.
initializeMqtt_WillOnline(m) ==
  [m EXCEPT !.clients = Append(@, [link |-> "connecting", listeners |-> 0,
                                   will |-> [topic |-> "online", value |-> TRUE]]),
            !.mqttClient = Len(m.clients) + 1,
            !.serviceState.isEnabled = TRUE]

\* mqtt.connect, with the will among its options, and the registration of the
\* event handlers.
initializeMqtt(m) ==
  [m EXCEPT !.clients = Append(@, [link |-> "connecting", listeners |-> 0,
                                   will |-> [topic |-> "online", value |-> FALSE]]),
            !.mqttClient = Len(m.clients) + 1,
            !.serviceState.isEnabled = TRUE]

\* Mutant: a connect leaves the count of reconnect attempts as it was.
onConnect_KeepsAttempts(m) ==
  LET m1 == [m EXCEPT !.serviceState.isConnected = TRUE,
                      !.serviceState.lastError = "none"]
      m2 == publishMessage(m1, "online", TRUE)
      m3 == setupSubscriptions(m2)
      m4 == publishThermostatStatus(m3)
  IN [m4 EXCEPT !.publishInterval = TRUE, !.obs.armedAt = Len(m4.obs.pub)]

\* mqttClient.on('connect')
onConnect(m) ==
  LET m1 == [m EXCEPT !.serviceState.isConnected = TRUE,
                      !.serviceState.reconnectAttempts = 0,
                      !.serviceState.lastError = "none"]
      m2 == publishMessage(m1, "online", TRUE)
      m3 == setupSubscriptions(m2)
      m4 == publishThermostatStatus(m3)
  IN [m4 EXCEPT !.publishInterval = TRUE, !.obs.armedAt = Len(m4.obs.pub)]

\* mqttClient.on('disconnect')
onDisconnect(m) == [m EXCEPT !.serviceState.isConnected = FALSE]

\* mqttClient.on('error')
onError(m) ==
  [m EXCEPT !.serviceState.lastError = "error",
            !.serviceState.isConnected = FALSE]

\* mqttClient.on('close')
onClose(m) == [m EXCEPT !.serviceState.isConnected = FALSE]

\* Mutant: stopping the bridge stops the control loop with it.
stopMqtt_StopsLoop(m) ==
  LET m1 == [m EXCEPT !.serviceState.isEnabled = FALSE,
                      !.publishInterval = FALSE,
                      !.thermostatInterval = FALSE,
                      !.thermostatState.isRunning = FALSE]
      m2 == IF m1.mqttClient = 0 THEN m1
            ELSE LET m3 == IF m1.serviceState.isConnected
                             THEN publishMessage(m1, "online", FALSE)
                             ELSE m1
                 IN [publishWill(m3, m1.mqttClient) EXCEPT
                       !.clients[m1.mqttClient].link = "ended",
                       !.mqttClient = 0]
  IN [m2 EXCEPT !.serviceState.isConnected = FALSE,
                !.serviceState.reconnectAttempts = 0]

\* end(true) closes the socket at once, without a disconnect packet, so the
\* broker treats it as a lost connection.
stopMqtt(m) ==
  LET m1 == [m EXCEPT !.serviceState.isEnabled = FALSE,
                      !.publishInterval = FALSE]
      m2 == IF m1.mqttClient = 0 THEN m1
            ELSE LET m3 == IF m1.serviceState.isConnected
                             THEN publishMessage(m1, "online", FALSE)
                             ELSE m1
                 IN [publishWill(m3, m1.mqttClient) EXCEPT
                       !.clients[m1.mqttClient].link = "ended",
                       !.mqttClient = 0]
  IN [m2 EXCEPT !.serviceState.isConnected = FALSE,
                !.serviceState.reconnectAttempts = 0]

\* mqttClient.on('reconnect')
onReconnect(m) ==
  LET m1 == [m EXCEPT !.serviceState.reconnectAttempts = @ + 1] IN
  IF m1.serviceState.reconnectAttempts >= maxReconnectAttempts
    THEN stopMqtt(m1)
    ELSE m1

\* restartMqtt up to its setTimeout; the timeout calls initializeMqtt.
restartMqtt(m) == [stopMqtt(m) EXCEPT !.restartTimers = @ + 1]

\* -------------------------------------------------------- routes/routes.ts
\* Mutant: the body is handed to startThermostat as it came.
startRoute_Unchecked(m, body, reading) == startThermostat(m, body, reading)

\* POST /thermostat/start: each field the body has is validated, and a body that
\* fails is answered 400 without calling startThermostat.
startRoute(m, body, reading) ==
  IF /\ "targetTemperature" \in DOMAIN body
     /\ ~validateTemperatureValue(body["targetTemperature"])
    THEN [m EXCEPT !.obs.res = "rejected", !.ret = FALSE]
  ELSE IF /\ "hysteresis" \in DOMAIN body
          /\ ~validateHysteresisValue(body["hysteresis"])
    THEN [m EXCEPT !.obs.res = "rejected", !.ret = FALSE]
  ELSE startThermostat(m, body, reading)

\* POST /target-temperature: the validateTemperature middleware, then
\* setTargetTemperature, whose promise the handler does not wait for.
targetTemperatureRoute(m, temperature) ==
  IF ~validateTemperatureValue(temperature)
    THEN [m EXCEPT !.obs.res = "rejected", !.ret = FALSE]
    ELSE setTargetTemperatureBegin(m, temperature)

\* POST /hysteresis: the validateHysteresis middleware, then setHysteresis.
hysteresisRoute(m, hysteresis) ==
  IF ~validateHysteresisValue(hysteresis)
    THEN [m EXCEPT !.obs.res = "rejected", !.ret = FALSE]
    ELSE setHysteresis(m, hysteresis)

\* A handler's result as the history records it.
Result(m) == [m EXCEPT !.obs.res = IF m.ret \/ @ = "rejected" THEN @ ELSE "fail"]

\* EnvOverlap: two valid targets, asked for over REST and over the broker, and a
\* settings store that does not fail; up to MaxOverlap calls wait on the store at
\* once, and the store answers them in either order.
EnvOverlap ==
  [readings |-> {Reading(190)},
   relayOks |-> {TRUE},
   configs |-> {EmptyConfig},
   targets |-> {50, 300},
   hystereses |-> {50},
   dbOks |-> {TRUE},
   setpointMsgs |-> {Value(Num(50)), Value(Num(300))},
   relayMsgs |-> {Value(Bool(TRUE))},
   modeMsgs |-> {Value(Str("heat"))},
   step |-> minActionInterval,
   stored |-> {0},
   outstanding |-> MaxOverlap]

\* How many setTargetTemperature calls wait on the settings store at once.
Outstanding(E) ==
  IF "outstanding" \in DOMAIN E THEN E.outstanding ELSE MaxPending

\* The state when the modules are loaded and the stored target is read.
Init(E) ==
  /\ persisted \in E.stored
  /\ thermostatState =
       [currentTemperature |-> 0,
        targetTemperature |-> IF persisted = 0 THEN DefaultTargetTemperature ELSE persisted,
        hysteresis |-> DefaultHysteresis,
        isHeating |-> FALSE,
        isRunning |-> FALSE,
        lastError |-> "none",
        consecutiveErrors |-> 0]
  /\ thermostatConfig = DEFAULT_CONFIG
  /\ thermostatInterval = FALSE
  /\ lastControlAction = 0
  /\ relayState = FALSE
  /\ now = 0
  /\ pending = <<>>
  /\ mqttClient = 0
  /\ clients = <<>>
  /\ serviceState =
       [isConnected |-> FALSE, isEnabled |-> FALSE, lastError |-> "none",
        reconnectAttempts |-> 0]
  /\ publishInterval = FALSE
  /\ restartTimers = 0
  /\ retainedOnline = <<>>
  /\ obs = NoObs
  /\ failedTicks = 0
  /\ otherFailedReads = 0
  /\ sinceRelayToggle = -1
  /\ decisionToggles = <<-1, -1>>

Advance(E) ==
  /\ now + E.step <= MaxTime
  /\ now' = now + E.step
  /\ sinceRelayToggle' =
       IF sinceRelayToggle = -1 THEN -1
       ELSE IF sinceRelayToggle + E.step >= minActionInterval THEN minActionInterval
       ELSE sinceRelayToggle + E.step
  /\ UNCHANGED <<thermostatState, thermostatConfig, thermostatInterval,
                 lastControlAction, relayState, persisted, pending, mqttClient,
                 clients, serviceState, publishInterval, restartTimers,
                 retainedOnline, obs, failedTicks, otherFailedReads,
                 decisionToggles>>

\* ----------------------------------------------------------- actions
\* The interval timer fires.
Tick(E) ==
  /\ thermostatInterval
  /\ \E reading \in E.readings, relayOk \in E.relayOks :
       Commit(tickCallback([Mem("tick") EXCEPT !.obs.afterDeferral = obs.deferred],
                           reading, relayOk))
  /\ UNCHANGED <<now, persisted>>

\* POST /thermostat/start
Start(E) ==
  /\ \E config \in E.configs, reading \in E.readings :
       Commit(Result(startRoute(Mem("start"), config, reading)))
  /\ UNCHANGED <<now, persisted>>

\* POST /thermostat/stop
Stop(E) ==
  /\ \E relayOk \in E.relayOks :
       Commit(Result(stopThermostat(Mem("stop"), relayOk)))
  /\ UNCHANGED <<now, persisted>>

\* POST /thermostat/reset
Reset(E) ==
  /\ \E reading \in E.readings, relayOk \in E.relayOks :
       Commit(Result(resetThermostat(Mem("reset"), reading, relayOk)))
  /\ UNCHANGED <<now, persisted>>

\* POST /target-temperature: setTargetTemperature runs to its await.
SetTarget(E) ==
  /\ \E temperature \in E.targets :
       LET m == targetTemperatureRoute(
                  [Mem("setTarget") EXCEPT !.obs.arg = temperature], temperature)
       IN Len(m.pending) <= Outstanding(E) /\ Commit(m)
  /\ UNCHANGED <<now, persisted>>

\* The settings store answers one waiting setTargetTemperature call, which runs
\* to its end, and after it the command handler that was waiting for it.
SetTargetDone(E) ==
  /\ \E i \in DOMAIN pending, dbOk \in E.dbOks, reading \in E.readings,
        relayOk \in E.relayOks :
       LET call == pending[i]
           m0 == [Mem("setTargetDone") EXCEPT
                    !.obs.arg = call.value,
                    !.obs.caller = call.from,
                    !.obs.wasRunning = call.running,
                    !.obs.overlapped = call.overlapped,
                    !.pending = [k \in 1..(Len(pending) - 1) |->
                                   IF k < i THEN pending[k] ELSE pending[k + 1]]]
           m1 == IF dbOk
                   THEN Result(setTargetTemperatureResume(m0, call.value, reading, relayOk))
                   ELSE setTargetTemperatureCatch([m0 EXCEPT !.obs.changes = call.changes])
       IN /\ persisted' = IF dbOk THEN call.value ELSE persisted
          /\ Commit(IF call.from = "mqtt"
                      THEN handleSetpointCommandResume(m1, call.value, m1.ret)
                      ELSE m1)
  /\ UNCHANGED now

\* POST /hysteresis
SetHysteresis(E) ==
  /\ \E hysteresis \in E.hystereses :
       Commit(Result(hysteresisRoute(
                [Mem("setHysteresis") EXCEPT !.obs.arg = hysteresis], hysteresis)))
  /\ UNCHANGED <<now, persisted>>

\* The shape of a command message: whether it parses, has a value field, and the
\* value is of the type the topic takes and, for the mode, one of its two names.
Shape(topic, message) ==
  IF ~message.json THEN "unparseable"
  ELSE IF "value" \notin DOMAIN message.payload THEN "novalue"
  ELSE LET value == message.payload["value"] IN
    CASE topic = "setpointSet" -> IF value.type = "number" THEN "valid" ELSE "wrongtype"
      [] topic = "relaySet" -> IF value.type = "boolean" THEN "valid" ELSE "wrongtype"
      [] topic = "modeSet" ->
           IF value.type # "string" THEN "wrongtype"
           ELSE IF value.v \in {"heat", "off"} THEN "valid" ELSE "badmode"

\* The clients the broker can deliver a command to: connected, with a listener.
Receivers ==
  {c \in DOMAIN clients : clients[c].link = "connected" /\ clients[c].listeners > 0}

\* A message on the setpoint command topic.
SetpointCommand(E) ==
  /\ \E c \in Receivers, message \in E.setpointMsgs :
       LET m == emitMessage(clients[c].listeners,
                            [Mem("setpointCommand") EXCEPT
                               !.obs.shape = Shape("setpointSet", message)],
                            "setpointSet", message, ReadFails, TRUE)
       IN Len(m.pending) <= Outstanding(E) /\ Commit(m)
  /\ UNCHANGED <<now, persisted>>

\* A message on the relay command topic.
RelayCommand(E) ==
  /\ \E c \in Receivers, message \in E.relayMsgs, relayOk \in E.relayOks :
       Commit(emitMessage(clients[c].listeners,
                          [Mem("relayCommand") EXCEPT
                             !.obs.shape = Shape("relaySet", message)],
                          "relaySet", message, ReadFails, relayOk))
  /\ UNCHANGED <<now, persisted>>

\* A message on the mode command topic.
ModeCommand(E) ==
  /\ \E c \in Receivers, message \in E.modeMsgs, reading \in E.readings,
        relayOk \in E.relayOks :
       Commit(emitMessage(clients[c].listeners,
                          [Mem("modeCommand") EXCEPT
                             !.obs.shape = Shape("modeSet", message)],
                          "modeSet", message, reading, relayOk))
  /\ UNCHANGED <<now, persisted>>

\* The process starts the bridge.
InitializeMqtt ==
  /\ clients = <<>> /\ restartTimers = 0
  /\ Commit(initializeMqtt(Mem("initializeMqtt")))
  /\ UNCHANGED <<now, persisted>>

\* A client's connection is accepted by the broker: it emits 'connect'.
Connect ==
  /\ \E c \in DOMAIN clients :
       /\ clients[c].link = "connecting"
       /\ mqttClient # 0 => clients[mqttClient].listeners < MaxListeners
       /\ Commit(onConnect([Mem("connect") EXCEPT
                              !.clients[c].link = "connected",
                              !.obs.arg = serviceState.reconnectAttempts]))
  /\ UNCHANGED <<now, persisted>>

\* The publish timer fires.
Publish ==
  /\ publishInterval
  /\ Commit(publishThermostatStatus(Mem("publish")))
  /\ UNCHANGED <<now, persisted>>

\* A client's connection, or its attempt to connect, ends: it emits 'close'.
Close ==
  /\ \E c \in DOMAIN clients :
       /\ clients[c].link \in {"connecting", "connected"}
       /\ Commit(onClose([publishWill(Mem("close"), c) EXCEPT
                            !.clients[c].link = "closed"]))
  /\ UNCHANGED <<now, persisted>>

\* A client starts another attempt after reconnectPeriod: it emits 'reconnect'.
Reconnect ==
  /\ \E c \in DOMAIN clients :
       /\ clients[c].link = "closed"
       /\ LET m == onReconnect([Mem("reconnect") EXCEPT !.clients[c].link = "connecting"])
          IN Commit(m)
  /\ UNCHANGED <<now, persisted>>

\* A client emits 'error' (the broker refuses it, the network fails).
Error ==
  /\ \E c \in DOMAIN clients :
       /\ clients[c].link \in {"connecting", "connected"}
       /\ Commit(onError(Mem("error")))
  /\ UNCHANGED <<now, persisted>>

\* The broker sends a client a disconnect packet: it emits 'disconnect'.
Disconnect ==
  /\ \E c \in DOMAIN clients :
       /\ clients[c].link = "connected"
       /\ Commit(onDisconnect(Mem("disconnect")))
  /\ UNCHANGED <<now, persisted>>

\* POST /mqtt/restart
RestartMqtt ==
  /\ Len(clients) + restartTimers < MaxClients
  /\ Commit(restartMqtt(Mem("restartMqtt")))
  /\ UNCHANGED <<now, persisted>>

\* The timeout of restartMqtt fires.
RestartTimeout ==
  /\ restartTimers > 0
  /\ Commit(initializeMqtt([Mem("restartTimeout") EXCEPT !.restartTimers = @ - 1]))
  /\ UNCHANGED <<now, persisted>>

\* The control loop, its timer and its callers over HTTP.
NextLoop(E) ==
  \/ Advance(E)
  \/ Tick(E)
  \/ Start(E)
  \/ Stop(E)
  \/ Reset(E)
  \/ SetTarget(E)
  \/ SetTargetDone(E)
  \/ SetHysteresis(E)

\* The loop, a bridge that connects once, and relay and mode commands.
NextIn(E) ==
  \/ NextLoop(E)
  \/ RelayCommand(E)
  \/ ModeCommand(E)
  \/ InitializeMqtt
  \/ Connect

\* The same with setpoint commands.
NextInputs(E) ==
  \/ NextIn(E)
  \/ SetpointCommand(E)

\* The loop under the bridge's commands and its periodic publish.
NextMessages(E) ==
  \/ Tick(E)
  \/ Start(E)
  \/ SetTargetDone(E)
  \/ SetpointCommand(E)
  \/ RelayCommand(E)
  \/ ModeCommand(E)
  \/ InitializeMqtt
  \/ Connect
  \/ Publish

\* The bridge with every event of its clients, and the loop it reports on.
NextBridge(E) ==
  \/ Tick(E)
  \/ Start(E)
  \/ RelayCommand(E)
  \/ ModeCommand(E)
  \/ InitializeMqtt
  \/ Connect
  \/ Publish
  \/ Close
  \/ Reconnect
  \/ Error
  \/ Disconnect
  \/ RestartMqtt
  \/ RestartTimeout

\* The loop started, ticking and stopped, and a bridge that connects once.
NextScenario(E) ==
  \/ Advance(E)
  \/ Tick(E)
  \/ Start(E)
  \/ Stop(E)
  \/ InitializeMqtt
  \/ Connect

\* Targets set over REST and over the broker while earlier calls still wait.
NextOverlap(E) ==
  \/ SetTarget(E)
  \/ SetpointCommand(E)
  \/ SetTargetDone(E)
  \/ InitializeMqtt
  \/ Connect

Next == NextIn(EnvFaults)

Spec == Init(EnvFaults) /\ [][Next]_vars

SpecInputs == Init(EnvInputs) /\ [][NextInputs(EnvInputs)]_vars

SpecDecision == Init(EnvDecision) /\ [][NextLoop(EnvDecision)]_vars

SpecTiming == Init(EnvTiming) /\ [][NextIn(EnvTiming)]_vars

SpecMessages == Init(EnvMessages) /\ [][NextMessages(EnvMessages)]_vars

SpecBridge == Init(EnvBridge) /\ [][NextBridge(EnvBridge)]_vars

SpecOverlap == Init(EnvOverlap) /\ [][NextOverlap(EnvOverlap)]_vars

SpecScenario == Init(EnvScenario) /\ [][NextScenario(EnvScenario)]_vars

\* The same with the timer firing as long as it is armed and a clock that does
\* not stop.
SpecLive ==
  /\ SpecScenario
  /\ WF_vars(Tick(EnvScenario))
  /\ WF_vars(Advance(EnvScenario))

\* ============================================================== claims
\* The loop's states as the specification names them.
Idle == thermostatState.isRunning /\ ~thermostatState.isHeating
Heating == thermostatState.isRunning /\ thermostatState.isHeating
Faulted ==
  /\ ~thermostatState.isRunning
  /\ thermostatState.consecutiveErrors >= maxConsecutiveErrors

\* The step is a handler's (the clock stands still) and the handler is op.
Ran(op) == now' = now /\ obs'.op = op

\* C1: in every reachable state isHeating implies isRunning.
C1_HeatingImpliesRunning ==
  thermostatState.isHeating => thermostatState.isRunning

\* C2: whenever the safety shutdown fires (the failed-read counter reaches
\* maxConsecutiveErrors, in a tick or in the read inside setTarget), the relay is
\* off in the state right after it.
C2_ShutdownTurnsRelayOff ==
  obs.shutdown => ~relayState

\* C3: the safety shutdown fires after exactly maxConsecutiveErrors consecutive
\* failed reads: after 1 to 4 consecutive failed ticks that follow a good read
\* the loop is still running, and after the 5th it is not.
C3_ShutdownOnFifthFailedTick ==
  (obs.op = "tick" /\ otherFailedReads = 0 /\ failedTicks >= 1)
    => (thermostatState.isRunning <=> failedTicks < maxConsecutiveErrors)

\* C4: in every reachable state consecutiveErrors >= maxConsecutiveErrors
\* implies isRunning = false and isHeating = false.
C4_ErrorLimitMeansStoppedAndOff ==
  thermostatState.consecutiveErrors >= maxConsecutiveErrors
    => ~thermostatState.isRunning /\ ~thermostatState.isHeating

\* C5: stop() always leaves the actuator off: called from Idle, Heating or
\* Faulted, however the relay came to be on, the relay is off when stop()
\* returns success.
C5_StopLeavesRelayOff ==
  [][((Idle \/ Heating \/ Faulted)
       /\ (\/ Ran("stop") /\ obs'.res = "ok"
           \/ Ran("modeCommand") /\ obs'.res = "off"))
      => ~relayState']_vars

\* C6: the hysteresis decision commands the actuator on only when the loop is
\* idle and current < target - hysteresis, commands it off only when the loop is
\* heating and current >= target, and issues no command when
\* target - hysteresis <= current < target.
C6_DecisionFollowsHysteresis ==
  LET current == thermostatState.currentTemperature
      target == thermostatConfig.targetTemperature
      hysteresis == thermostatConfig.hysteresis
  IN obs.by = "decision" =>
       /\ obs.cmd = "on" => ~obs.wasHeating /\ current < target - hysteresis
       /\ obs.cmd = "off" => obs.wasHeating /\ current >= target
       /\ (target - hysteresis <= current /\ current < target) => obs.cmd = "none"

\* C6 witness: the decision has just turned the heating off at exactly the target.
C6_Witness ==
  /\ obs.by = "decision" /\ obs.cmd = "off" /\ obs.cmdOk
  /\ thermostatState.currentTemperature = thermostatConfig.targetTemperature

\* C7 as stated: no two actuator toggles, whoever makes them (the decision,
\* stop(), a relay command), occur less than minActionInterval apart.
C7_NoTwoTogglesWithinInterval ==
  [][relayState' # relayState => sinceRelayToggle \in {-1, minActionInterval}]_vars

\* C7 as amended: no two actuator toggles made by the hysteresis decision occur
\* less than minActionInterval apart.
C7_DecisionTogglesSpaced ==
  decisionToggles[1] # -1
    => decisionToggles[2] - decisionToggles[1] >= minActionInterval

\* C7 witness: the decision has just toggled the relay for the second time.
C7_Witness ==
  /\ decisionToggles[1] # -1
  /\ decisionToggles[2] = now
  /\ obs.by = "decision" /\ obs.cmd # "none" /\ obs.cmdOk

\* C8: start() called while the loop is running is a no-op: the target and
\* hysteresis the decision uses, every field of ThermostatState and the timer
\* are the same after the call as before it, with or without a config argument.
C8_StartWhileRunningIsNoOp ==
  [][(thermostatState.isRunning
       /\ (Ran("start") \/ (Ran("modeCommand") /\ obs'.res = "heat")))
      => /\ thermostatConfig' = thermostatConfig
         /\ thermostatState' = thermostatState
         /\ thermostatInterval' = thermostatInterval]_vars

\* A target has just been submitted: by POST /target-temperature, or by a setpoint
\* command that carried a number.
SetTargetCalled ==
  Ran("setTarget") \/ (Ran("setpointCommand") /\ obs'.res # "dropped")

\* C9: setTarget(v) with v outside [5,30] fails with a range error and leaves
\* targetTemperature unchanged, in the snapshot and in the decision's value.
C9_OutOfRangeTargetRejected ==
  [][(SetTargetCalled /\ ~(obs'.arg >= MinTemperature /\ obs'.arg <= MaxTemperature))
      => /\ obs'.res = "rejected"
         /\ thermostatState'.targetTemperature = thermostatState.targetTemperature
         /\ thermostatConfig'.targetTemperature = thermostatConfig.targetTemperature]_vars

\* C9 witness: setTargetTemperature(30.1), called for a setpoint command, has just
\* been rejected on a running loop.
C9_Witness ==
  /\ obs.op = "setpointCommand" /\ obs.res = "rejected" /\ obs.arg > MaxTemperature
  /\ thermostatState.isRunning

\* A setTarget or setHysteresis call has just been rejected for its value.
Rejected ==
  (SetTargetCalled \/ Ran("setHysteresis")) /\ obs'.res = "rejected"

\* C10: a setTarget or setHysteresis call rejected for an out-of-range
\* value leaves every field of ThermostatState unchanged (lastError and
\* consecutiveErrors included), issues no actuator command and persists nothing.
C10_RejectionLeavesStateUntouched ==
  [][Rejected
      => /\ thermostatState' = thermostatState
         /\ thermostatConfig' = thermostatConfig
         /\ obs'.cmd = "none" /\ relayState' = relayState
         /\ persisted' = persisted /\ pending' = pending]_vars

\* C11: in every reachable state 5 <= targetTemperature <= 30, for the snapshot's
\* value and for the target the decision uses, after any sequence of start(config),
\* setTarget, reset and the initial load from the settings store.
C11_TargetInRange ==
  /\ validateTemperatureValue(thermostatState.targetTemperature)
  /\ validateTemperatureValue(thermostatConfig.targetTemperature)

\* C11 witness: a start with a target of 30.0 in its body has been accepted.
C11_Witness ==
  /\ obs.op = "start" /\ obs.res = "ok"
  /\ thermostatConfig.targetTemperature = MaxTemperature

\* C12: a successful reset() restarts the loop if and only if it was running when
\* reset() was called, with the target and hysteresis captured before the stop:
\* isRunning, the timer and the decision's target and hysteresis are after the
\* reset what they were before it.
C12_ResetKeepsRunningAndConfig ==
  [][(Ran("reset") /\ obs'.res = "ok")
      => /\ thermostatState'.isRunning = thermostatState.isRunning
         /\ thermostatInterval' = thermostatState.isRunning
         /\ thermostatConfig' = thermostatConfig]_vars

\* C12 witness: a running loop with a target of 30.0 has just been reset.
C12_Witness ==
  /\ obs.op = "reset" /\ obs.res = "ok"
  /\ thermostatState.isRunning
  /\ thermostatConfig.targetTemperature = MaxTemperature

\* C13: reset() called on a loop the safety shutdown stopped leaves the error
\* state cleared (consecutiveErrors = 0, no lastError) and the loop running, its
\* timer armed.
C13_ResetRestartsFaultedLoop ==
  [][(Faulted /\ Ran("reset"))
      => /\ thermostatState'.consecutiveErrors = 0
         /\ thermostatState'.lastError = "none"
         /\ thermostatState'.isRunning
         /\ thermostatInterval']_vars

\* C14: when an actuator command of the hysteresis decision fails, isHeating is
\* left as the decision read it and lastError is set; and the next tick, if its
\* inputs are the same (it reads the same temperature and the same relay state),
\* issues the same command again.
C14_FailedCommandIsRetried ==
  [][(obs.by = "decision" /\ ~obs.cmdOk)
      => /\ thermostatState.isHeating = obs.wasHeating
         /\ thermostatState.lastError = (IF obs.cmd = "on" THEN "relayOn" ELSE "relayOff")
         /\ (/\ Ran("tick") /\ obs'.res = "ok"
             /\ thermostatState'.currentTemperature = thermostatState.currentTemperature
             /\ relayState = thermostatState.isHeating)
              => (obs'.by = "decision" /\ obs'.cmd = obs.cmd)]_vars

\* C14 witness: the decision's command to turn the heating on has just succeeded
\* after an earlier one had failed.
C14_Witness ==
  /\ obs.op = "tick" /\ obs.by = "decision" /\ obs.cmd = "on" /\ obs.cmdOk
  /\ thermostatState.lastError = "relayOn"

\* C15: after a successful setHysteresis(v) the hysteresis field of the
\* ThermostatState snapshot equals v.
C15_SnapshotHysteresisFollows ==
  [][(Ran("setHysteresis") /\ obs'.res = "ok")
      => thermostatState'.hysteresis = obs'.arg]_vars

\* The setpoint messages a handler handed the client, as the values they carry.
SetpointsIn(pub) ==
  [i \in {k \in DOMAIN pub : pub[k].topic = "setpoint"} |-> pub[i].value]

\* C16: every periodic publish emits mode "heat" exactly when isRunning is true
\* and "off" otherwise, whatever isHeating is.
C16_PublishedModeFollowsRunning ==
  (obs.op = "publish" /\ obs.pub # <<>>)
    => /\ \E i \in DOMAIN obs.pub : obs.pub[i].topic = "mode"
       /\ \A i \in DOMAIN obs.pub :
            obs.pub[i].topic = "mode"
              => (obs.pub[i].value = "heat" <=> thermostatState.isRunning)
                 /\ (obs.pub[i].value = "off" <=> ~thermostatState.isRunning)

\* C16 witness: the periodic publish has just reported a running loop that is not
\* heating.
C16_Witness ==
  /\ obs.op = "publish" /\ obs.pub # <<>>
  /\ thermostatState.isRunning /\ ~thermostatState.isHeating

C18_InvalidCommandDropped ==
  [][((Ran("setpointCommand") \/ Ran("relayCommand") \/ Ran("modeCommand"))
       /\ obs'.shape # "valid")
      => /\ thermostatState' = thermostatState
         /\ thermostatConfig' = thermostatConfig
         /\ thermostatInterval' = thermostatInterval
         /\ obs'.cmd = "none" /\ relayState' = relayState
         /\ obs'.pub = <<>>
         /\ pending' = pending /\ persisted' = persisted
         /\ mqttClient' = mqttClient /\ clients' = clients
         /\ serviceState' = serviceState /\ publishInterval' = publishInterval]_vars

\* C18 witness: a relay command whose value is not a boolean has just been
\* dropped while the loop runs.
C18_Witness ==
  /\ obs.op = "relayCommand" /\ obs.shape = "wrongtype" /\ obs.res = "dropped"
  /\ thermostatState.isRunning

\* The handlers of the bridge's connection events, and of its start and restart.
ConnectionEvent ==
  \E op \in {"initializeMqtt", "connect", "disconnect", "error", "reconnect",
             "close", "restartMqtt", "restartTimeout"} : Ran(op)

\* C19: the bridge's connection events (connect, disconnect, error, reconnect,
\* close, the bridge disabling itself) never change ThermostatState, the loop's
\* timer or the actuator: the loop keeps ticking with the bridge down.
C19_ConnectionEventsLeaveLoopAlone ==
  [][ConnectionEvent
      => /\ thermostatState' = thermostatState
         /\ thermostatConfig' = thermostatConfig
         /\ thermostatInterval' = thermostatInterval
         /\ lastControlAction' = lastControlAction
         /\ relayState' = relayState /\ obs'.cmd = "none"]_vars

\* C19 witness: the loop has just ticked with the relay on, after the bridge
\* disabled itself.
C19_Witness ==
  /\ obs.op = "tick" /\ obs.res = "ok" /\ relayState
  /\ clients # <<>> /\ mqttClient = 0 /\ ~serviceState.isEnabled
  /\ restartTimers = 0

\* The bridge has disabled itself at the reconnect limit and has not been
\* restarted: stopMqtt has run and no restart is under way.
Disabled ==
  ~serviceState.isEnabled /\ clients # <<>> /\ restartTimers = 0

\* C20: once reconnectAttempts reaches maxReconnectAttempts the bridge disables
\* itself (isEnabled = false) and then does nothing until it is restarted: no
\* reconnect attempt, no publish, no command applied, no publish timer armed.
C20_DisabledBridgeIsSilent ==
  [][/\ (Ran("reconnect") /\ serviceState.reconnectAttempts + 1 >= maxReconnectAttempts)
          => ~serviceState'.isEnabled
     /\ Disabled
          => /\ ~publishInterval /\ ~publishInterval'
             /\ ~Ran("reconnect") /\ ~Ran("connect") /\ ~Ran("publish")
             /\ ~Ran("setpointCommand") /\ ~Ran("relayCommand")
             /\ ~Ran("modeCommand")]_vars

\* C21: right after every connect the count of reconnect attempts is 0, whatever
\* it was before.
C21_AttemptsZeroAfterConnect ==
  [][Ran("connect") => serviceState'.reconnectAttempts = 0]_vars

\* A connect that came after reconnect attempts, the count back at 0.
C21_Witness ==
  /\ obs.op = "connect"
  /\ obs.arg > 0
  /\ serviceState.reconnectAttempts = 0

\* C22: every connect hands over the online message, then subscribes to the
\* command topics, then hands over the snapshot (temperature, relay, setpoint,
\* mode), then arms the publish timer, in this order within the one handler.
C22_ConnectPublishesThenArms ==
  [][Ran("connect")
       => /\ Len(obs'.pub) = 5
          /\ obs'.pub[1] = [topic |-> "online", value |-> TRUE]
          /\ obs'.subAt = 1
          /\ [i \in 1..4 |-> obs'.pub[i + 1].topic]
               = <<"temperature", "relay", "setpoint", "mode">>
          /\ obs'.armedAt = 5
          /\ publishInterval']_vars

\* C23: when a connected client's link drops without a disconnect from it, the
\* broker's retained online message becomes false, by the will registered at
\* mqtt.connect; and it becomes true only by the online message of a connect
\* handler.
C23_WillSaysOfflineUntilConnect ==
  [][/\ (/\ Ran("close")
         /\ \E c \in DOMAIN clients :
              clients[c].link = "connected" /\ clients'[c].link = "closed")
          => retainedOnline' = <<FALSE>>
     /\ (retainedOnline' = <<TRUE>> /\ retainedOnline # <<TRUE>>)
          => /\ Ran("connect")
             /\ obs'.pub # <<>>
             /\ obs'.pub[1] = [topic |-> "online", value |-> TRUE]]_vars

\* The only client there has been connected, dropped, made reconnect attempts
\* and connected again, and the retained online message is true again.
C23_Witness ==
  /\ obs.op = "connect"
  /\ obs.arg > 0
  /\ Len(clients) = 1
  /\ clients[1].listeners = 2
  /\ retainedOnline = <<TRUE>>

\* C24: with target 22.0 and hysteresis 1.5, starting the loop publishes the
\* mode "heat", a tick that reads 19.0 with the actuator off commands it on, and
\* a tick that reads 22.1 with the actuator on commands it off: the scenario as
\* stated, whatever the time since the last toggle.
C24_ScenarioAsStated ==
  [][/\ (Ran("start") /\ ~thermostatState.isRunning /\ serviceState.isConnected)
          => obs'.pub = <<[topic |-> "mode", value |-> "heat"]>>
     /\ (Ran("tick") /\ thermostatConfig = DEFAULT_CONFIG)
          => /\ (thermostatState'.currentTemperature = 190 /\ ~relayState)
                  => obs'.cmd = "on"
             /\ (thermostatState'.currentTemperature = 221 /\ relayState)
                  => obs'.cmd = "off"]_vars

\* C24 (amended): the same, the ticks' commands issued only when at least
\* minActionInterval has passed since the last toggle by the decision (since
\* the module was loaded, before the first); a tick inside the interval issues
\* no command and leaves the actuator as it is.
C24_ScenarioWithInterval ==
  [][/\ (Ran("start") /\ ~thermostatState.isRunning /\ serviceState.isConnected)
          => obs'.pub = <<[topic |-> "mode", value |-> "heat"]>>
     /\ (Ran("tick") /\ thermostatConfig = DEFAULT_CONFIG)
          => IF now - lastControlAction < minActionInterval
               THEN obs'.cmd = "none" /\ relayState' = relayState
               ELSE /\ (thermostatState'.currentTemperature = 190 /\ ~relayState)
                       => obs'.cmd = "on"
                    /\ (thermostatState'.currentTemperature = 221 /\ relayState)
                       => obs'.cmd = "off"]_vars

\* A tick that read 22.1 has turned the actuator off, minActionInterval or more
\* after an earlier tick turned it on.
C24_Witness ==
  /\ obs.op = "tick"
  /\ obs.cmd = "off"
  /\ obs.by = "decision"
  /\ thermostatState.currentTemperature = 221
  /\ thermostatConfig = DEFAULT_CONFIG
  /\ decisionToggles[1] # -1
  /\ decisionToggles[2] - decisionToggles[1] >= minActionInterval
  /\ ~relayState

\* C25: every stop() of a running loop issues an actuator-off command and
\* cancels the timer before it returns, whether isHeating was true or false.
C25_StopCommandsOffAndCancels ==
  [][(thermostatState.isRunning /\ Ran("stop"))
       => obs'.cmd = "off" /\ ~thermostatInterval']_vars

\* C26: consecutiveErrors is the number of consecutive failed sensor reads since
\* the last successful read or the last start or reset: a failed read adds
\* exactly 1 and a successful read sets it to 0.
C26_CounterCountsFailedReads ==
  thermostatState.consecutiveErrors = failedTicks + otherFailedReads

\* C27: a handler in which the safety shutdown fires runs the critical-error
\* handlers exactly once.
C27_ShutdownNotifiesOnce ==
  obs.shutdown => obs.notified = 1

C29_SetTargetDecidesAgainstV ==
  [][(/\ Ran("setTargetDone")
      /\ obs'.res = "ok"
      /\ obs'.wasRunning
      /\ thermostatState.isRunning
      /\ thermostatState'.consecutiveErrors = 0)
       => LET v == obs'.arg
              current == thermostatState'.currentTemperature
              hysteresis == thermostatConfig.hysteresis
          IN obs'.cmd =
               IF now - lastControlAction < minActionInterval THEN "none"
               ELSE IF relayState /\ current >= v THEN "off"
               ELSE IF ~relayState /\ current < v - hysteresis THEN "on"
               ELSE "none"]_vars

\* C30: between a setTarget's update of targetTemperature and its persistence
\* and re-evaluation (while the call waits on the settings store) no tick,
\* stop, start or other setTarget runs.
C30_SetTargetIsAtomic ==
  [][pending # <<>>
       => /\ ~Ran("tick")
          /\ ~Ran("stop")
          /\ ~Ran("start")
          /\ ~Ran("reset")
          /\ ~(Ran("setTarget") /\ obs'.res = "pending")
          /\ ~(Ran("setpointCommand") /\ obs'.res = "pending")]_vars

\* C31: when the actuator-off command inside stop() fails, stop() returns false
\* and the actuator fault is recorded in lastError.
C31_FailedStopRecordsFault ==
  [][(Ran("stop") /\ obs'.cmd = "off" /\ ~obs'.cmdOk)
       => obs'.res = "fail" /\ thermostatState'.lastError = "relayOff"]_vars

\* The decision's view of a crossed threshold: the loop runs, the relay is off
\* and the temperature is below the lower limit, or the relay is on and the
\* temperature is at or above the upper limit.
NeedsOn ==
  /\ thermostatState.isRunning
  /\ ~relayState
  /\ thermostatState.currentTemperature
       < thermostatConfig.targetTemperature - thermostatConfig.hysteresis
NeedsOff ==
  /\ thermostatState.isRunning
  /\ relayState
  /\ thermostatState.currentTemperature >= thermostatConfig.targetTemperature

\* The modelled clock can still reach the end of the running interval.
IntervalWithinClock == lastControlAction + minActionInterval <= MaxTime

\* C32: a threshold crossing that a tick's decision has left alone inside the
\* minimum action interval is not lost: with the timer firing and the clock
\* advancing, the actuator is toggled, unless the loop is stopped or a reading
\* comes that is no longer beyond the threshold.
C32_DeferredCrossingIsActedOn ==
  /\ (obs.deferred /\ NeedsOn /\ IntervalWithinClock)
       ~> (relayState \/ ~NeedsOn)
  /\ (obs.deferred /\ NeedsOff /\ IntervalWithinClock)
       ~> (~relayState \/ ~NeedsOff)

\* A tick has toggled the relay, the tick before it having left the crossing
\* alone inside the minimum action interval.
C32_Witness ==
  /\ obs.op = "tick"
  /\ obs.afterDeferral
  /\ obs.cmd \in {"on", "off"}
  /\ obs.cmdOk
  /\ lastControlAction = now

\* C33: the relay value a relay command's handler republishes equals the relay's
\* actual state: the commanded value is republished only if the actuator command
\* succeeded.
C33_RelayAckIsActualState ==
  [][Ran("relayCommand")
       => \A i \in DOMAIN obs'.pub :
            obs'.pub[i].topic = "relay" => obs'.pub[i].value = relayState']_vars

\* C34: a well-formed command message that the broker delivers is applied to
\* the control loop exactly once, whatever connects and reconnects came before.
C34_CommandAppliedOnce ==
  [][(/\ Ran("relayCommand") \/ Ran("modeCommand") \/ Ran("setpointCommand")
      /\ obs'.shape = "valid")
       => obs'.applied = 1]_vars

\* C35: when setTarget returns failure, because the value is out of range or
\* because the settings store rejects it, targetTemperature is what it was
\* before the call, in the snapshot and in the decision's value: a rejected
\* call changes neither, and a call that the store fails, and whose value was
\* not already the target in both, does not leave its value in both.
C35_FailedSetTargetKeepsTarget ==
  [][/\ (SetTargetCalled /\ obs'.res = "rejected")
          => /\ thermostatState'.targetTemperature = thermostatState.targetTemperature
             /\ thermostatConfig'.targetTemperature = thermostatConfig.targetTemperature
     /\ (Ran("setTargetDone") /\ obs'.res = "dbfail" /\ obs'.changes)
          => \/ thermostatState'.targetTemperature # obs'.arg
             \/ thermostatConfig'.targetTemperature # obs'.arg]_vars

\* C36: the targetTemperature of the ThermostatState snapshot, which is what the
\* setpoint topic reports, always equals the target the hysteresis decision
\* uses (thermostatConfig's).
C36_SnapshotTargetIsDecisionTarget ==
  thermostatState.targetTemperature = thermostatConfig.targetTemperature

\* C37: when several setTargetTemperature calls with valid values were waiting on
\* the settings store at the same time and the last of them has completed, the
\* target the store holds is the target in memory (thermostatState's and
\* thermostatConfig's).
C37_StoreHoldsTargetAfterOverlap ==
  [][(Ran("setTargetDone") /\ obs'.overlapped /\ pending' = <<>>)
       => /\ persisted' = thermostatState'.targetTemperature
          /\ persisted' = thermostatConfig'.targetTemperature]_vars

\* C38: whenever no operation of the control loop is in progress, isHeating in
\* ThermostatState is the relay's actual state.
C38_IsHeatingIsRelayState ==
  pending = <<>> => thermostatState.isHeating = relayState

\* C39: the control-loop timer is armed if and only if isRunning is true.
C39_TimerArmedIffRunning ==
  thermostatInterval <=> thermostatState.isRunning

\* The loop's timer has shut the loop down after repeated failed reads: the
\* timer is cleared and isRunning is false in the same handler run.
C39_Witness ==
  /\ obs.op = "tick"
  /\ obs.shutdown
  /\ ~thermostatInterval
  /\ ~thermostatState.isRunning
  /\ thermostatState.consecutiveErrors >= maxConsecutiveErrors

\* C40: at most one broker client is live (created and not ended) at any time.
C40_AtMostOneLiveClient ==
  Cardinality({c \in DOMAIN clients : clients[c].link # "ended"}) <= 1

====
